---- MODULE Spec2Model ----
(***************************************************************************)
(* The batch minting service EnhancedMetaplexService.mintCollection        *)
(* (src/lib/env-validation.ts) as a state machine.  mintCollection is an   *)
(* async function: every await is a suspension point, and every action     *)
(* below is the code that runs from one await to the next.  The chain RPC  *)
(* and the wallet are the environment: each awaited call either answers    *)
(* with a value drawn from a small set or throws one of a few raw errors.  *)
(*                                                                         *)
(* A message text is a sequence of segments; String.includes(s) is         *)
(* membership of the segment s, and a template string is concatenation.    *)
(* Items are indexed from 0 as in the code.  In Spec the call is made      *)
(* without a recipients list, so every item is minted to the wallet's own  *)
(* address; SpecAirdrop is the call with a recipients list, and FairSpec   *)
(* is Spec with every awaited call settling.                               *)
(*                                                                         *)
(* Further specifications of the same module: SpecMintNFT is the single-   *)
(* item minter MetaplexNFTService.mintNFT; SpecUpload is the client        *)
(* upload IPFSService.uploadFile with its progress timer; SpecClassify,    *)
(* SpecEstimate, SpecFormat, SpecResolve, SpecExplorer and                 *)
(* SpecRecipientList apply the error classifiers, estimateMintingCost,     *)
(* formatSignature, the recipient resolution, the explorer URL builders    *)
(* and the recipient list of the form to one input each.  A specification  *)
(* leaves the other machines idle.                                         *)
(***************************************************************************)
EXTENDS Integers, Sequences, FiniteSets, TLC

VARIABLES
    pc,                        \* position of mintCollection (the await it is suspended at)
    walletConnected,           \* wallet.publicKey is set
    imageCount,                \* imageUris.length
    metadataCount,             \* metadataUris.length
    estimatedCost,             \* const estimatedCost (whole-batch estimate)
    initialBalance,            \* initialBalanceCheck.balance, -1 before it is read
    i,                         \* index of the for loop
    retryCount,                \* let retryCount
    lastError,                 \* let lastError
    results,                   \* const results: EnhancedMintResult[]
    successfulMints,           \* let successfulMints
    insufficientFundsDetected, \* let insufficientFundsDetected
    finalBalance,              \* let finalBalance
    submissions,               \* per item: sendAndConfirm calls made for it
    waits,                     \* backoff waits (ms) slept for the current item
    warnedAt,                  \* items before which the low-balance warning was emitted
    fundsFailedAt,             \* item at which insufficientFundsDetected was set, -1 if none
    thrown,                    \* the error mintCollection rejected with
    returned,                  \* the BatchMintResult mintCollection resolved with
    chainTouched,              \* mintCollection has made a chain call (RPC query or submission)
    recipientOffCurve,         \* items whose validated recipient key is not on the curve
    onChain,                   \* per item: mints whose creation was confirmed on chain
    \* MetaplexNFTService.mintNFT (src/lib/metaplex-nft-service.ts)
    nftPc,                     \* position of mintNFT
    nftWallet,                 \* what the wallet exposes: publicKey, signTransaction
    nftBalance,                \* const balance, -1 before it is read
    nftEstimatedCost,          \* const estimatedCost
    nftSigners,                \* mint identities generated by generateSigner so far
    nftRetryCount,             \* let retryCount
    nftAttempts,               \* per attempt: the mint identity and the blockhash fetch it used
    nftFailures,               \* per failed attempt: the raw error
    nftWaits,                  \* waits (ms) slept between attempts
    nftChainCalls,             \* chain calls made (balance, rent, blockhash, submission)
    nftCreated,                \* mint identities whose creation was confirmed on chain
    nftThrown,                 \* the error mintNFT rejected with
    nftReturned,               \* mintNFT resolved with a result
    \* a pure function of the services applied to one input
    fn,                        \* the function applied, "" before the call
    arg,                       \* its input
    out,                       \* its result
    \* IPFSService.uploadFile (src/unnamed/part_002)
    upPc,                      \* position of uploadFile
    upOnProgress,              \* options.onProgress is given
    upTimer,                   \* the progress interval is set and not cleared
    upProgress,                \* percentages delivered to options.onProgress so far
    upSettledAt,               \* callbacks delivered when uploadFile settled, -1 before
    upThrown                   \* the error uploadFile rejected with

batchVars == <<pc, walletConnected, imageCount, metadataCount, estimatedCost, initialBalance,
               i, retryCount, lastError, results, successfulMints,
               insufficientFundsDetected, finalBalance, submissions, waits, warnedAt,
               fundsFailedAt, thrown, returned, chainTouched, recipientOffCurve, onChain>>

nftVars == <<nftPc, nftWallet, nftBalance, nftEstimatedCost, nftSigners, nftRetryCount,
             nftAttempts, nftFailures, nftWaits, nftChainCalls, nftCreated, nftThrown,
             nftReturned>>

pureVars == <<fn, arg, out>>

uploadVars == <<upPc, upOnProgress, upTimer, upProgress, upSettledAt, upThrown>>

vars == <<batchVars, nftVars, pureVars, uploadVars>>

\* the variables each machine leaves alone
nonBatchVars == <<nftVars, pureVars, uploadVars>>
nonNftVars == <<batchVars, pureVars, uploadVars>>
nonPureVars == <<batchVars, nftVars, uploadVars>>
nonUploadVars == <<batchVars, nftVars, pureVars>>

inputVars == <<walletConnected, imageCount, metadataCount, recipientOffCurve>>
loopVars  == <<i, retryCount, lastError, results, successfulMints, insufficientFundsDetected,
               finalBalance, submissions, waits, warnedAt, fundsFailedAt>>

----------------------------------------------------------------------------
(* Bounds of the model *)

MaxItems == 3            \* largest batch (imageUris.length) explored
MaxBalanceUnits == 3     \* balances read are multiples of a per-item cost, up to this many

----------------------------------------------------------------------------
(* Program constants *)

maxRetriesOneMore == 3 + 1

maxRetries == 3
BackoffStepMs == 2000
LAMPORTS_PER_SOL == 1000000000
MintAccountSize == 82
MetadataAccountSize == 679
TokenAccountSize == 165
BaseFeeLamports == 5000
FeeSignatures == 2
FallbackDivisor == 100          \* 0.01 * LAMPORTS_PER_SOL == LAMPORTS_PER_SOL / 100
ToFixedDigits == 4

ERROR_CODES == [WALLET_NOT_CONNECTED |-> "WALLET_NOT_CONNECTED",
                INSUFFICIENT_FUNDS |-> "INSUFFICIENT_FUNDS",
                VALIDATION_ERROR |-> "VALIDATION_ERROR",
                TRANSACTION_FAILED |-> "TRANSACTION_FAILED",
                TRANSACTION_TOO_LARGE |-> "TRANSACTION_TOO_LARGE",
                NETWORK_ERROR |-> "NETWORK_ERROR",
                FILE_UPLOAD_FAILED |-> "FILE_UPLOAD_FAILED",
                MINT_FAILED |-> "MINT_FAILED"]

----------------------------------------------------------------------------
(* Errors *)

\* String.prototype.includes on a message made of segments
Includes(message, s) == \E k \in 1..Len(message) : message[k] = s

\* no error (null / undefined)
NoError == [isError |-> FALSE, name |-> "", code |-> "", message |-> <<>>, amounts |-> <<>>]

\* a raw Error thrown by the SDK, the RPC or the wallet
RawError(message) ==
    [isError |-> TRUE, name |-> "Error", code |-> "", message |-> message, amounts |-> <<>>]

\* createError(code, message): an NFTMinterError; amounts are the numbers its text quotes
createError(code, message, amounts) ==
    [isError |-> TRUE, name |-> "NFTMinterError", code |-> code, message |-> message,
     amounts |-> amounts]

\* (x / LAMPORTS_PER_SOL).toFixed(4): x rounded to 4 decimals of a SOL, in units of 0.0001
ToFixed4(x) ==
    LET unit == LAMPORTS_PER_SOL \div (10 ^ ToFixedDigits)
    IN  (2 * x + unit) \div (2 * unit)

\* the raw failures a submission (getLatestBlockhash, sendAndConfirm) can end with
SubmissionErrors ==
    { RawError(<<"Transfer: ", "insufficient lamports", " 0, need 1461600">>),
      RawError(<<"Error: ", "insufficient funds">>),
      RawError(<<"User rejected", " the request.">>),
      RawError(<<"Blockhash not found">>),
      RawError(<<"Transaction was not confirmed in 30.00 seconds">>) }

\* the raw failure of a getBalance call
BalanceError == RawError(<<"failed to get balance of account">>)

----------------------------------------------------------------------------
(* Cost estimate and balance check *)

\* connection.getMinimumBalanceForRentExemption(size), as the chain answers it: two years
\* of rent at 3480 lamports per byte-year for the account data and 128 bytes of overhead
getMinimumBalanceForRentExemption(size) == (128 + size) * 3480 * 2

\* the collection branch adding the transaction fees once instead of once per item
estimateMintingCostFeesOnce(rpcOk, mintType, quantity) ==
    IF rpcOk
    THEN (getMinimumBalanceForRentExemption(MintAccountSize)
          + getMinimumBalanceForRentExemption(MetadataAccountSize)
          + getMinimumBalanceForRentExemption(TokenAccountSize))
             * (IF mintType = "single" THEN 1 ELSE quantity)
         + BaseFeeLamports * FeeSignatures
    ELSE (LAMPORTS_PER_SOL \div FallbackDivisor) * quantity

\* the catch block returning the fallback without the quantity factor
estimateMintingCostFlatFallback(rpcOk, mintType, quantity) ==
    IF rpcOk
    THEN (getMinimumBalanceForRentExemption(MintAccountSize)
          + getMinimumBalanceForRentExemption(MetadataAccountSize)
          + getMinimumBalanceForRentExemption(TokenAccountSize)
          + BaseFeeLamports * FeeSignatures) * (IF mintType = "single" THEN 1 ELSE quantity)
    ELSE LAMPORTS_PER_SOL \div FallbackDivisor

\* estimateMintingCost(network, mintType, quantity); rpcOk: the three RPC queries answered
estimateMintingCost(rpcOk, mintType, quantity) ==
    IF rpcOk
    THEN LET mintRent == getMinimumBalanceForRentExemption(MintAccountSize)
             metadataRent == getMinimumBalanceForRentExemption(MetadataAccountSize)
             ataRent == getMinimumBalanceForRentExemption(TokenAccountSize)
             transactionFees == BaseFeeLamports * FeeSignatures
         IN  IF mintType = "single"
             THEN mintRent + metadataRent + ataRent + transactionFees
             ELSE (mintRent + metadataRent + ataRent + transactionFees) * quantity
    ELSE (LAMPORTS_PER_SOL \div FallbackDivisor) * quantity

\* the balances connection.getBalance answers with: multiples of the fallback per-item
\* estimate, which is at least the per-item estimate of the RPC path
BalanceValues ==
    { k * estimateMintingCost(FALSE, "single", 1) : k \in 0..MaxBalanceUnits }

\* checkWalletBalance: the sufficient flag
SufficientAny(balance, requiredAmount) == balance > 0

Sufficient(balance, requiredAmount) == balance >= requiredAmount

\* checkWalletBalance: the shortfall
Shortfall(balance, requiredAmount) ==
    IF Sufficient(balance, requiredAmount) THEN 0 ELSE requiredAmount - balance

----------------------------------------------------------------------------
(* Error classification *)

\* handleMintingError: the test of its insufficient-funds branch
MentionsInsufficientFundsLowercase(message) ==
    \/ Includes(message, "insufficient lamports")
    \/ Includes(message, "insufficient funds")

MentionsInsufficientFunds(message) ==
    \/ Includes(message, "insufficient lamports")
    \/ Includes(message, "insufficient funds")
    \/ Includes(message, "Insufficient funds")

\* handleMintingError(error)
handleMintingError(error) ==
    IF error.isError
    THEN IF MentionsInsufficientFunds(error.message)
         THEN createError(ERROR_CODES.INSUFFICIENT_FUNDS,
                          <<"Insufficient funds", " for minting. Please add more SOL/ETH to your wallet.">>,
                          <<>>)
         ELSE IF \/ Includes(error.message, "User rejected")
                 \/ Includes(error.message, "Transaction rejected")
         THEN createError(ERROR_CODES.TRANSACTION_FAILED,
                          <<"Transaction was rejected by user">>, <<>>)
         ELSE IF \/ Includes(error.message, "Simulation failed")
                 \/ Includes(error.message, "Blockhash not found")
         THEN createError(ERROR_CODES.TRANSACTION_FAILED,
                          <<"Transaction simulation failed: ">> \o error.message, error.amounts)
         ELSE IF \/ Includes(error.message, "Overruns Uint8Array")
                 \/ Includes(error.message, "too large")
         THEN createError(ERROR_CODES.TRANSACTION_TOO_LARGE,
                          <<"Transaction too large. Try reducing metadata size or batch size.">>,
                          <<>>)
         ELSE IF error.name = "TokenOwnerOffCurveError"
         THEN createError(ERROR_CODES.VALIDATION_ERROR,
                          <<"Invalid recipient address - address is not on the Ed25519 curve. Please check the recipient address format.">>,
                          <<>>)
         ELSE createError(ERROR_CODES.MINT_FAILED,
                          <<"NFT minting failed: ">> \o error.message, error.amounts)
    ELSE createError(ERROR_CODES.MINT_FAILED,
                     <<"NFT minting failed: ">> \o error.message, error.amounts)

\* the test of the retry loop's catch block for an insufficient-funds failure
IsInsufficientFundsMessage(error) ==
    \/ Includes(error.message, "insufficient lamports")
    \/ Includes(error.message, "Insufficient funds")

\* the error the initial balance check throws
InitialInsufficientFundsError(balance, requiredAmount) ==
    createError(ERROR_CODES.INSUFFICIENT_FUNDS,
                <<"Insufficient funds", " for N NFTs. Need N, but only have N. Please add N to your wallet.">>,
                <<ToFixed4(requiredAmount), ToFixed4(balance),
                  ToFixed4(Shortfall(balance, requiredAmount))>>)

----------------------------------------------------------------------------
(* mintCollection *)

\* MetaplexNFTService.mintNFT has not been called
NftIdle ==
    /\ nftPc = "idle"
    /\ nftWallet = [publicKey |-> FALSE, signTransaction |-> FALSE]
    /\ nftBalance = -1
    /\ nftEstimatedCost = -1
    /\ nftSigners = 0
    /\ nftRetryCount = 0
    /\ nftAttempts = <<>>
    /\ nftFailures = <<>>
    /\ nftWaits = <<>>
    /\ nftChainCalls = 0
    /\ nftCreated = {}
    /\ nftThrown = NoError
    /\ nftReturned = FALSE

\* mintCollection has not been called
BatchIdle ==
    /\ pc = "idle"
    /\ walletConnected = FALSE
    /\ imageCount = 0
    /\ metadataCount = 0
    /\ estimatedCost = -1
    /\ initialBalance = -1
    /\ i = 0
    /\ retryCount = 0
    /\ lastError = NoError
    /\ results = <<>>
    /\ successfulMints = 0
    /\ insufficientFundsDetected = FALSE
    /\ finalBalance = -1
    /\ submissions = [j \in 0..(MaxItems - 1) |-> 0]
    /\ waits = <<>>
    /\ warnedAt = {}
    /\ fundsFailedAt = -1
    /\ thrown = NoError
    /\ returned = [results |-> <<>>, totalMinted |-> -1, failed |-> -1, totalCost |-> -1,
                   insufficientFunds |-> FALSE, remainingBalance |-> -1]
    /\ chainTouched = FALSE
    /\ recipientOffCurve = {}
    /\ onChain = [j \in 0..(MaxItems - 1) |-> 0]

\* IPFSService.uploadFile has not been called
UploadIdle ==
    /\ upPc = "idle"
    /\ upOnProgress = FALSE
    /\ upTimer = FALSE
    /\ upProgress = <<>>
    /\ upSettledAt = -1
    /\ upThrown = NoError

\* no pure function is being applied
PureIdle ==
    /\ fn = ""
    /\ arg = <<>>
    /\ out = <<>>

totalNFTs == imageCount

Items == 0..(totalNFTs - 1)

NoResult == [results |-> <<>>, totalMinted |-> -1, failed |-> -1, totalCost |-> -1,
             insufficientFunds |-> FALSE, remainingBalance |-> -1]

\* the pc values inside the per-item loop, up to the final balance read
LoopPcs == {"recheck", "attempt", "submitted", "fundsBalance", "backoff", "pacing",
            "finalBalance"}

Init ==
    /\ pc = "start"
    /\ walletConnected \in BOOLEAN
    /\ imageCount \in 0..MaxItems
    /\ metadataCount \in 0..MaxItems
    /\ estimatedCost = 0
    /\ initialBalance = -1
    /\ i = 0
    /\ retryCount = 0
    /\ lastError = NoError
    /\ results = <<>>
    /\ successfulMints = 0
    /\ insufficientFundsDetected = FALSE
    /\ finalBalance = -1
    /\ submissions = [j \in 0..(MaxItems - 1) |-> 0]
    /\ waits = <<>>
    /\ warnedAt = {}
    /\ fundsFailedAt = -1
    /\ thrown = NoError
    /\ returned = NoResult
    /\ chainTouched = FALSE
    /\ recipientOffCurve = {}
    /\ onChain = [j \in 0..(MaxItems - 1) |-> 0]
    /\ NftIdle
    /\ PureIdle
    /\ UploadIdle

CountsMatchAlways == TRUE

\* imageUris.length !== metadataUris.length, negated
CountsMatch == imageCount = metadataCount

\* the guards before the try block: these errors reach the caller as they are
ThrowNoWallet ==
    /\ pc = "start"
    /\ ~walletConnected
    /\ pc' = "thrown"
    /\ thrown' = createError(ERROR_CODES.WALLET_NOT_CONNECTED, <<"Wallet not connected">>, <<>>)
    /\ UNCHANGED <<inputVars, estimatedCost, initialBalance, loopVars, returned>>
    /\ UNCHANGED <<chainTouched, onChain, nonBatchVars>>

ThrowCountMismatch ==
    /\ pc = "start"
    /\ walletConnected
    /\ ~CountsMatch
    /\ pc' = "thrown"
    /\ thrown' = createError(ERROR_CODES.VALIDATION_ERROR,
                             <<"Image and metadata counts must match">>, <<>>)
    /\ UNCHANGED <<inputVars, estimatedCost, initialBalance, loopVars, returned>>
    /\ UNCHANGED <<chainTouched, onChain, nonBatchVars>>

\* createUmi, getConnection, then await estimateMintingCost(network, "collection", totalNFTs)
EstimateBatch ==
    /\ pc = "start"
    /\ walletConnected
    /\ CountsMatch
    /\ \E rpcOk \in BOOLEAN :
          estimatedCost' = estimateMintingCost(rpcOk, "collection", totalNFTs)
    /\ pc' = "initialBalance"
    /\ chainTouched' = TRUE
    /\ UNCHANGED <<inputVars, initialBalance, loopVars, thrown, returned>>
    /\ UNCHANGED <<onChain, nonBatchVars>>

\* the catch of the outer try block: throw this.handleMintingError(error)
OuterCatch(error) ==
    /\ pc' = "thrown"
    /\ thrown' = handleMintingError(error)

\* where control goes when the for loop is entered at index n (after i++ or at i = 0):
\* the loop ends, or the balance is re-read before an even index, or the attempt starts
LoopEntryPc(n) ==
    IF n >= totalNFTs THEN "finalBalance"
    ELSE IF n > 0 /\ n % 2 = 0 THEN "recheck"
    ELSE "attempt"

\* await checkWalletBalance(...) answered: the initial check, the recipient pass, loop entry
InitialBalanceCheck ==
    /\ pc = "initialBalance"
    /\ \E balance \in BalanceValues :
          /\ initialBalance' = balance
          /\ IF ~Sufficient(balance, estimatedCost)
             THEN /\ OuterCatch(InitialInsufficientFundsError(balance, estimatedCost))
                  /\ UNCHANGED finalBalance
             ELSE /\ finalBalance' = balance
                  /\ pc' = LoopEntryPc(0)
                  /\ UNCHANGED thrown
    /\ UNCHANGED <<inputVars, estimatedCost, i, retryCount, lastError, results, successfulMints,
                   insufficientFundsDetected, submissions, waits, warnedAt, fundsFailedAt,
                   returned>>
    /\ UNCHANGED <<chainTouched, onChain, nonBatchVars>>

\* await checkWalletBalance(...) rejected: getBalance threw
InitialBalanceFails ==
    /\ pc = "initialBalance"
    /\ OuterCatch(BalanceError)
    /\ UNCHANGED <<inputVars, estimatedCost, initialBalance, loopVars, returned>>
    /\ UNCHANGED <<chainTouched, onChain, nonBatchVars>>

\* const waitTime = retryCount * 2000
WaitTimeExponential(n) == BackoffStepMs * (2 ^ (n - 1))

WaitTime(n) == n * BackoffStepMs

\* the statements after the while loop of item i: the early-stop check, then the pacing
\* delay before the next item, or the end of the for loop after the last item
AfterRetryLoop(detected, retries) ==
    IF detected /\ retries > maxRetries THEN "finalBalance"
    ELSE IF i < totalNFTs - 1 THEN "pacing"
    ELSE "finalBalance"

\* the catch block of the retry loop, up to its first await or to the end of the while loop
Catch(error) ==
    /\ lastError' = error
    /\ retryCount' = retryCount + 1
    /\ IF IsInsufficientFundsMessage(error)
       THEN /\ insufficientFundsDetected' = TRUE
            /\ fundsFailedAt' = IF fundsFailedAt = -1 THEN i ELSE fundsFailedAt
            /\ pc' = "fundsBalance"
            /\ UNCHANGED waits
       ELSE /\ UNCHANGED <<insufficientFundsDetected, fundsFailedAt>>
            /\ IF retryCount + 1 <= maxRetries
               THEN /\ waits' = Append(waits, WaitTime(retryCount + 1))
                    /\ pc' = "backoff"
               ELSE /\ pc' = AfterRetryLoop(insufficientFundsDetected, retryCount + 1)
                    /\ UNCHANGED waits

AfterRecheckStopsWhenLow(low) == IF low THEN "finalBalance" ELSE "attempt"

\* where control goes after the balance re-check: the if block only warns, then the
\* while loop of item i starts
AfterRecheck(low) == "attempt"

\* the balance re-read before an even index answered: warn when below the remaining estimate
RecheckBalance ==
    /\ pc = "recheck"
    /\ \E currentBalance \in BalanceValues, rpcOk \in BOOLEAN :
          LET costPerNFT == estimateMintingCost(rpcOk, "single", 1)
              remainingNFTs == totalNFTs - i
              estimatedRemainingCost == costPerNFT * remainingNFTs
          IN  /\ warnedAt' = IF currentBalance < estimatedRemainingCost
                              THEN warnedAt \cup {i} ELSE warnedAt
              /\ pc' = AfterRecheck(currentBalance < estimatedRemainingCost)
    /\ UNCHANGED <<inputVars, estimatedCost, initialBalance, i, retryCount, lastError, results,
                   successfulMints, insufficientFundsDetected, finalBalance, submissions,
                   waits, fundsFailedAt, thrown, returned>>
    /\ UNCHANGED <<chainTouched, onChain, nonBatchVars>>

\* the balance re-read before an even index rejected: the outer catch takes it
RecheckBalanceFails ==
    /\ pc = "recheck"
    /\ OuterCatch(BalanceError)
    /\ UNCHANGED <<inputVars, estimatedCost, initialBalance, loopVars, returned>>
    /\ UNCHANGED <<chainTouched, onChain, nonBatchVars>>

\* await umi.rpc.getLatestBlockhash() answered: sendAndConfirm is called
Submit ==
    /\ pc = "attempt"
    /\ submissions' = [submissions EXCEPT ![i] = @ + 1]
    /\ pc' = "submitted"
    /\ UNCHANGED <<inputVars, estimatedCost, initialBalance, i, retryCount, lastError, results,
                   successfulMints, insufficientFundsDetected, finalBalance, waits, warnedAt,
                   fundsFailedAt, thrown, returned>>
    /\ UNCHANGED <<chainTouched, onChain, nonBatchVars>>

\* await umi.rpc.getLatestBlockhash() rejected: the attempt fails before any submission
BlockhashFails ==
    /\ pc = "attempt"
    /\ Catch(RawError(<<"failed to get latest blockhash">>))
    /\ UNCHANGED <<inputVars, estimatedCost, initialBalance, i, results, successfulMints,
                   finalBalance, submissions, warnedAt, thrown, returned>>
    /\ UNCHANGED <<chainTouched, onChain, nonBatchVars>>

\* results.push({...}) for item i
PushResultFront(rs) == <<[item |-> i, metadataUri |-> i]>> \o rs

PushResult(rs) == Append(rs, [item |-> i, metadataUri |-> i])

\* sendAndConfirm resolved: addresses derived, result pushed, retry loop left by break
SubmissionConfirmed ==
    /\ pc = "submitted"
    /\ i \notin recipientOffCurve
    /\ onChain' = [onChain EXCEPT ![i] = @ + 1]
    /\ results' = PushResult(results)
    /\ successfulMints' = successfulMints + 1
    /\ pc' = AfterRetryLoop(insufficientFundsDetected, retryCount)
    /\ UNCHANGED <<inputVars, estimatedCost, initialBalance, i, retryCount, lastError,
                   insufficientFundsDetected, finalBalance, submissions, waits, warnedAt,
                   fundsFailedAt, thrown, returned>>
    /\ UNCHANGED <<chainTouched, nonBatchVars>>

\* sendAndConfirm rejected with a raw error
SubmissionFails ==
    /\ pc = "submitted"
    /\ \E error \in SubmissionErrors : Catch(error)
    /\ UNCHANGED <<inputVars, estimatedCost, initialBalance, i, results, successfulMints,
                   finalBalance, submissions, warnedAt, thrown, returned>>
    /\ UNCHANGED <<chainTouched, onChain, nonBatchVars>>

\* in the catch block: finalBalance = await connection.getBalance(...) answered, then break
FundsBalanceRead ==
    /\ pc = "fundsBalance"
    /\ \E balance \in BalanceValues : finalBalance' = balance
    /\ pc' = AfterRetryLoop(insufficientFundsDetected, retryCount)
    /\ UNCHANGED <<inputVars, estimatedCost, initialBalance, i, retryCount, lastError, results,
                   successfulMints, insufficientFundsDetected, submissions, waits, warnedAt,
                   fundsFailedAt, thrown, returned>>
    /\ UNCHANGED <<chainTouched, onChain, nonBatchVars>>

\* in the catch block: getBalance rejected; the error leaves both loops for the outer catch
FundsBalanceFails ==
    /\ pc = "fundsBalance"
    /\ OuterCatch(BalanceError)
    /\ UNCHANGED <<inputVars, estimatedCost, initialBalance, loopVars, returned>>
    /\ UNCHANGED <<chainTouched, onChain, nonBatchVars>>

\* the backoff timer fired: the while condition holds, the next attempt starts
BackoffDone ==
    /\ pc = "backoff"
    /\ pc' = "attempt"
    /\ UNCHANGED <<inputVars, estimatedCost, initialBalance, loopVars, thrown, returned>>
    /\ UNCHANGED <<chainTouched, onChain, nonBatchVars>>

\* the 1 s pacing timer fired: i++, and the next iteration starts
PacingDone ==
    /\ pc = "pacing"
    /\ i' = i + 1
    /\ retryCount' = 0
    /\ lastError' = NoError
    /\ waits' = <<>>
    /\ pc' = LoopEntryPc(i + 1)
    /\ UNCHANGED <<inputVars, estimatedCost, initialBalance, results, successfulMints,
                   insufficientFundsDetected, finalBalance, submissions, warnedAt,
                   fundsFailedAt, thrown, returned>>
    /\ UNCHANGED <<chainTouched, onChain, nonBatchVars>>

\* the returned BatchMintResult
BatchResultAttempted ==
    [results |-> results, totalMinted |-> successfulMints,
     failed |-> (i + 1) - successfulMints, totalCost |-> estimatedCost,
     insufficientFunds |-> insufficientFundsDetected, remainingBalance |-> finalBalance']

BatchResult ==
    [results |-> results, totalMinted |-> successfulMints,
     failed |-> totalNFTs - successfulMints, totalCost |-> estimatedCost,
     insufficientFunds |-> insufficientFundsDetected, remainingBalance |-> finalBalance']

\* the final balance read answered: the result is assembled and returned
FinalBalanceRead ==
    /\ pc = "finalBalance"
    /\ \E balance \in BalanceValues : finalBalance' = balance
    /\ returned' = BatchResult
    /\ pc' = "returned"
    /\ UNCHANGED <<inputVars, estimatedCost, initialBalance, i, retryCount, lastError, results,
                   successfulMints, insufficientFundsDetected, submissions, waits, warnedAt,
                   fundsFailedAt, thrown>>
    /\ UNCHANGED <<chainTouched, onChain, nonBatchVars>>

\* the final balance read rejected: the outer catch takes it
FinalBalanceFails ==
    /\ pc = "finalBalance"
    /\ OuterCatch(BalanceError)
    /\ UNCHANGED <<inputVars, estimatedCost, initialBalance, loopVars, returned>>
    /\ UNCHANGED <<chainTouched, onChain, nonBatchVars>>

Next ==
    \/ ThrowNoWallet
    \/ ThrowCountMismatch
    \/ EstimateBatch
    \/ InitialBalanceCheck
    \/ InitialBalanceFails
    \/ RecheckBalance
    \/ RecheckBalanceFails
    \/ Submit
    \/ BlockhashFails
    \/ SubmissionConfirmed
    \/ SubmissionFails
    \/ FundsBalanceRead
    \/ FundsBalanceFails
    \/ BackoffDone
    \/ PacingDone
    \/ FinalBalanceRead
    \/ FinalBalanceFails

Spec == Init /\ [][Next]_vars

----------------------------------------------------------------------------
(* Properties of mintCollection *)

\* the items that have a result
MintedItems == { results[k].item : k \in 1..Len(results) }

\* the per-item share of the whole-batch estimate
PerItemEstimate == IF totalNFTs = 0 THEN 0 ELSE estimatedCost \div totalNFTs

\* the initial balance was read and is below the whole-batch estimate
InitialBalanceShort == initialBalance # -1 /\ initialBalance < estimatedCost

\* C1: every returned BatchMintResult has totalMinted + failed equal to the number of
\* requested items and as many results as totalMinted; the items without a result (failed,
\* or never attempted after an early stop) are the ones counted as failed.
C1_BatchCounts ==
    pc = "returned" =>
        /\ returned.totalMinted + returned.failed = imageCount
        /\ Len(returned.results) = returned.totalMinted
        /\ returned.failed = Cardinality(Items \ MintedItems)

\* C1 witness: a batch of 3 stopped early at its second item, with one result
C1_Witness ==
    /\ pc = "returned"
    /\ imageCount = 3
    /\ i = 1
    /\ returned.insufficientFunds
    /\ returned.totalMinted = 1
    /\ returned.failed = 2
    /\ submissions[2] = 0

\* C2: once a submission attempt of some item has failed with an insufficient-funds error,
\* no later item is ever submitted.
C2_StopsAfterInsufficientFunds ==
    fundsFailedAt # -1 =>
        \A j \in Items : j > fundsFailedAt => submissions[j] = 0

\* C3: once mintCollection has entered the per-item loop of a non-empty batch it never
\* throws, whichever chain call fails afterwards (the final balance read included).
C3_NeverThrowsInsideLoop ==
    [][(pc \in LoopPcs /\ imageCount >= 1) => (pc' # "thrown")]_vars

\* C4: when the balance read at the start is below the whole-batch estimate, the call fails
\* and no transaction is submitted for any item.
C4_NoSubmissionWhenBalanceShort ==
    InitialBalanceShort =>
        /\ pc = "thrown"
        /\ \A j \in 0..(MaxItems - 1) : submissions[j] = 0
        /\ results = <<>>

\* C4 witness: a non-zero balance below the estimate of a batch of several items
C4_Witness ==
    /\ InitialBalanceShort
    /\ initialBalance > 0
    /\ imageCount >= 2
    /\ pc = "thrown"

\* C5: the error surfaced to the caller when the upfront balance check fails quotes the
\* shortfall (required estimate minus current balance).
C5_ThrownErrorReportsShortfall ==
    (pc = "thrown" /\ InitialBalanceShort) =>
        \E k \in 1..Len(thrown.amounts) :
            thrown.amounts[k] = ToFixed4(estimatedCost - initialBalance)

\* C6 as stated: with a balance one item's cost short of the whole-batch estimate (so it
\* covers the first totalNFTs - 1 items), at least that many items are minted before an
\* insufficient-funds error is surfaced.
C6_MintsAffordableItemsFirst ==
    (/\ thrown.code = ERROR_CODES.INSUFFICIENT_FUNDS
     /\ imageCount >= 1
     /\ initialBalance = estimatedCost - PerItemEstimate) =>
        successfulMints >= imageCount - 1

\* C6 amended: a balance one item's cost short of the whole-batch estimate makes the call
\* throw INSUFFICIENT_FUNDS at the upfront check with nothing minted and nothing submitted;
\* past the upfront check no step (an insufficient-funds failure included) removes or
\* reorders a result already recorded.
C6_AbortsUpfrontThenKeepsResults ==
    [][/\ (/\ initialBalance' # -1
           /\ imageCount >= 1
           /\ initialBalance' = estimatedCost' - PerItemEstimate') =>
              (/\ pc' = "thrown"
               /\ thrown'.code = ERROR_CODES.INSUFFICIENT_FUNDS
               /\ successfulMints' = 0
               /\ \A j \in 0..(MaxItems - 1) : submissions'[j] = 0)
       /\ Len(results') >= Len(results)
       /\ SubSeq(results', 1, Len(results)) = results]_vars

\* C6 witness: a batch of 3 whose balance covers 2 items is rejected upfront
C6_Witness ==
    /\ imageCount = 3
    /\ initialBalance = estimatedCost - PerItemEstimate
    /\ initialBalance > 0
    /\ pc = "thrown"
    /\ thrown.code = ERROR_CODES.INSUFFICIENT_FUNDS
    /\ successfulMints = 0

\* C7: after an attempt of an item has failed with an insufficient-funds error, the retry
\* loop of that item is left: no backoff wait and no further attempt.
C7_NoRetryAfterInsufficientFunds ==
    (/\ lastError # NoError
     /\ handleMintingError(lastError).code = ERROR_CODES.INSUFFICIENT_FUNDS) =>
        pc \notin {"backoff", "attempt", "submitted"}

C9_NoRetryAfterUserRejection ==
    (/\ lastError # NoError
     /\ \/ Includes(lastError.message, "User rejected")
        \/ Includes(lastError.message, "Transaction rejected")) =>
        pc \notin {"backoff", "attempt", "submitted"}

\* C10: items are processed one at a time in input order: only items up to the current one
\* have been submitted, and results lists the minted items in increasing input index, each
\* with its own metadata URI.
C10_SequentialInOrder ==
    /\ \A j \in 0..(MaxItems - 1) : submissions[j] > 0 => j <= i /\ j \in Items
    /\ \A a, b \in 1..Len(results) : a < b => results[a].item < results[b].item
    /\ \A k \in 1..Len(results) :
          /\ results[k].metadataUri = results[k].item
          /\ results[k].item <= i
          /\ submissions[results[k].item] > 0

\* C10 witness: three items minted, the second one on a retry
C10_Witness ==
    /\ pc = "returned"
    /\ Len(results) = 3
    /\ submissions[1] = 2
    /\ results[3].item = 2

----------------------------------------------------------------------------
(* Pre-validation of mintCollection *)

\* mintCollection has ended by throwing, without having made a chain call
FailedBeforeChain == pc = "thrown" /\ ~chainTouched /\ submissions = [j \in 0..(MaxItems - 1) |-> 0]

----------------------------------------------------------------------------
(* Error classification: handleMintingError and the catch of mintNFT *)

MaxSegments == 2

\* the closed set of codes the classifiers produce
Taxonomy == { ERROR_CODES.WALLET_NOT_CONNECTED, ERROR_CODES.INSUFFICIENT_FUNDS,
              ERROR_CODES.VALIDATION_ERROR, ERROR_CODES.TRANSACTION_FAILED,
              ERROR_CODES.TRANSACTION_TOO_LARGE, ERROR_CODES.NETWORK_ERROR,
              ERROR_CODES.MINT_FAILED }

\* the substrings the classifiers look for, and two texts none of them looks for
Segments == { "insufficient lamports", "insufficient funds", "Insufficient funds",
              "User rejected", "Transaction rejected", "Simulation failed",
              "Blockhash not found", "Overruns Uint8Array", "too large",
              " the request.", "Transaction was not confirmed in 30.00 seconds",
              "Unknown error" }

Messages == UNION { [1..n -> Segments] : n \in 1..MaxSegments }

\* a value thrown that is not an Error (a string, a plain object): String(error) is its text
NonError(message) ==
    [isError |-> FALSE, name |-> "", code |-> "", message |-> message, amounts |-> <<>>]

\* the TokenOwnerOffCurveError of @solana/spl-token
OffCurveError(message) ==
    [isError |-> TRUE, name |-> "TokenOwnerOffCurveError", code |-> "", message |-> message,
     amounts |-> <<>>]

\* what a catch block can receive
RawFailures ==
    { RawError(m) : m \in Messages } \cup { OffCurveError(m) : m \in Messages }
        \cup { NonError(m) : m \in Messages }

\* the catch of MetaplexNFTService.mintNFT
mintNFTCatch(error) ==
    IF error.isError /\ Includes(error.message, "insufficient funds")
    THEN createError(ERROR_CODES.INSUFFICIENT_FUNDS,
                     <<"Insufficient funds", " for minting">>, <<>>)
    ELSE IF error.isError /\ Includes(error.message, "User rejected")
    THEN createError(ERROR_CODES.TRANSACTION_FAILED,
                     <<"Transaction was rejected by user">>, <<>>)
    ELSE IF /\ error.isError
            /\ \/ Includes(error.message, "Simulation failed")
               \/ Includes(error.message, "Blockhash not found")
    THEN createError(ERROR_CODES.NETWORK_ERROR, <<"Network error - please try again">>, <<>>)
    ELSE createError(ERROR_CODES.MINT_FAILED,
                     <<"NFT minting failed: ">>
                         \o (IF error.isError THEN error.message ELSE <<"Unknown error">>),
                     error.amounts)

ClassifyInit ==
    /\ fn = ""
    /\ arg \in RawFailures
    /\ out = <<>>
    /\ BatchIdle
    /\ NftIdle
    /\ UploadIdle

\* this.handleMintingError(error)
ApplyHandleMintingError ==
    /\ fn = ""
    /\ fn' = "handleMintingError"
    /\ out' = handleMintingError(arg)
    /\ UNCHANGED <<arg, nonPureVars>>

\* the catch block of mintNFT receives the error
ApplyMintNFTCatch ==
    /\ fn = ""
    /\ fn' = "mintNFTCatch"
    /\ out' = mintNFTCatch(arg)
    /\ UNCHANGED <<arg, nonPureVars>>

ClassifyNext ==
    \/ ApplyHandleMintingError
    \/ ApplyMintNFTCatch

SpecClassify == ClassifyInit /\ [][ClassifyNext]_vars

Classified == fn \in {"handleMintingError", "mintNFTCatch"}

\* the message names a stale blockhash or a failed simulation
MentionsTransient(message) ==
    \/ Includes(message, "Simulation failed")
    \/ Includes(message, "Blockhash not found")

\* the message names a cause the classifiers test before the transient ones
MentionsEarlierCause(message) ==
    \/ MentionsInsufficientFunds(message)
    \/ Includes(message, "User rejected")
    \/ Includes(message, "Transaction rejected")

\* C16: an Error whose message names a stale blockhash or a failed simulation (and no
\* cause tested earlier) is classified NETWORK_ERROR by both classifiers
C16_TransientIsNetworkError ==
    (Classified /\ arg.isError /\ MentionsTransient(arg.message)
        /\ ~MentionsEarlierCause(arg.message))
        => out.code = ERROR_CODES.NETWORK_ERROR

\* text occurs in message as a run of consecutive segments
ContainsText(message, text) ==
    \E k \in 1..(Len(message) - Len(text) + 1) :
        SubSeq(message, k, k + Len(text) - 1) = text

\* the tests of handleMintingError in order, applied to a failure's text and name
BatchTests(failure) ==
    << MentionsInsufficientFunds(failure.message),
       Includes(failure.message, "User rejected")
           \/ Includes(failure.message, "Transaction rejected"),
       MentionsTransient(failure.message),
       Includes(failure.message, "Overruns Uint8Array")
           \/ Includes(failure.message, "too large"),
       failure.name = "TokenOwnerOffCurveError" >>

\* the code each test of handleMintingError leads to
BatchTestCode == <<ERROR_CODES.INSUFFICIENT_FUNDS, ERROR_CODES.TRANSACTION_FAILED,
                   ERROR_CODES.TRANSACTION_FAILED, ERROR_CODES.TRANSACTION_TOO_LARGE,
                   ERROR_CODES.VALIDATION_ERROR>>

\* the tests of the catch of mintNFT in order
SingleTests(failure) ==
    << Includes(failure.message, "insufficient funds"),
       Includes(failure.message, "User rejected"),
       MentionsTransient(failure.message) >>

\* the code each test of the catch of mintNFT leads to
SingleTestCode == <<ERROR_CODES.INSUFFICIENT_FUNDS, ERROR_CODES.TRANSACTION_FAILED,
                    ERROR_CODES.NETWORK_ERROR>>

\* the first test passed, 0 when none is
FirstMatch(tests) ==
    IF \E k \in 1..Len(tests) : tests[k]
    THEN CHOOSE k \in 1..Len(tests) : tests[k] /\ \A j \in 1..(k - 1) : ~tests[j]
    ELSE 0

\* the kind the first matching known substring gives, MINT_FAILED when none matches
KindByFirstMatch(tests, codes) ==
    IF FirstMatch(tests) = 0 THEN ERROR_CODES.MINT_FAILED ELSE codes[FirstMatch(tests)]

\* C17: every raw failure, Error or not, is mapped to one code of the taxonomy, decided by
\* the first known substring its text matches, and to MINT_FAILED with the original text
\* in the message when it matches none
C17_ClassifierTotalFirstMatch ==
    Classified =>
        /\ out.code \in Taxonomy
        /\ fn = "handleMintingError" =>
              /\ out.code = KindByFirstMatch(BatchTests(arg), BatchTestCode)
              /\ (FirstMatch(BatchTests(arg)) = 0 => ContainsText(out.message, arg.message))
        /\ fn = "mintNFTCatch" =>
              /\ out.code = KindByFirstMatch(SingleTests(arg), SingleTestCode)
              /\ (FirstMatch(SingleTests(arg)) = 0 => ContainsText(out.message, arg.message))

----------------------------------------------------------------------------
(* Cost estimator: estimateMintingCost *)

MaxQuantity == 6

\* the keys of CONFIG.NETWORKS
Networks == {"solana-mainnet", "solana-devnet", "eclipse-mainnet", "eclipse-testnet"}

\* quantity is an array length (mintCollection passes imageUris.length) or the default 1
EstimateInputs ==
    [network : Networks, mintType : {"single", "collection"}, quantity : 0..MaxQuantity]

EstimateInit ==
    /\ fn = ""
    /\ arg \in EstimateInputs
    /\ out = <<>>
    /\ BatchIdle
    /\ NftIdle
    /\ UploadIdle

\* the try block runs to its return: every RPC query was answered
EstimateReturns ==
    /\ fn = ""
    /\ fn' = "estimateMintingCost"
    /\ out' = [threw |-> FALSE, rpcOk |-> TRUE,
               value |-> estimateMintingCost(TRUE, arg.mintType, arg.quantity)]
    /\ UNCHANGED <<arg, nonPureVars>>

\* getConnection or an RPC query throws: the catch block returns the fallback
EstimateFallsBack ==
    /\ fn = ""
    /\ fn' = "estimateMintingCost"
    /\ out' = [threw |-> FALSE, rpcOk |-> FALSE,
               value |-> estimateMintingCost(FALSE, arg.mintType, arg.quantity)]
    /\ UNCHANGED <<arg, nonPureVars>>

EstimateNext ==
    \/ EstimateReturns
    \/ EstimateFallsBack

SpecEstimate == EstimateInit /\ [][EstimateNext]_vars

\* the hardcoded fallback for one item: 0.01 * LAMPORTS_PER_SOL
FallbackPerItem == LAMPORTS_PER_SOL \div FallbackDivisor

\* C18 as stated: the estimate never throws, is the fallback scaled by quantity when an
\* RPC query fails, and is strictly positive for every network, mint kind and quantity
C18_Original ==
    fn = "estimateMintingCost" =>
        /\ ~out.threw
        /\ (~out.rpcOk => out.value = FallbackPerItem * arg.quantity)
        /\ out.value > 0

\* C18: the estimate never throws, is the fallback scaled by quantity when an RPC query
\* fails, and is strictly positive for every network and mint kind when quantity >= 1
\* (and for mint kind "single" on the RPC path whatever the quantity); a collection of
\* quantity 0 is estimated at 0
C18_EstimateNeverThrowsPositive ==
    fn = "estimateMintingCost" =>
        /\ ~out.threw
        /\ (~out.rpcOk => out.value = FallbackPerItem * arg.quantity)
        /\ (arg.quantity >= 1 => out.value > 0)
        /\ ((out.rpcOk /\ arg.mintType = "single") => out.value > 0)
        /\ ((arg.quantity = 0 /\ ~(out.rpcOk /\ arg.mintType = "single")) => out.value = 0)

C18_Witness ==
    /\ fn = "estimateMintingCost"
    /\ ~out.rpcOk
    /\ arg.quantity = 3
    /\ out.value = 3 * FallbackPerItem

----------------------------------------------------------------------------
(* Base58 (bs58) and signature normalisation: formatSignature *)

MaxSignatureBytes == 2

\* the bs58 alphabet; strings are sequences of characters
ALPHABET ==
    <<"1", "2", "3", "4", "5", "6", "7", "8", "9", "A", "B", "C", "D", "E", "F", "G", "H",
      "J", "K", "L", "M", "N", "P", "Q", "R", "S", "T", "U", "V", "W", "X", "Y", "Z", "a",
      "b", "c", "d", "e", "f", "g", "h", "i", "j", "k", "m", "n", "o", "p", "q", "r", "s",
      "t", "u", "v", "w", "x", "y", "z">>

AlphabetChars == { ALPHABET[k] : k \in 1..Len(ALPHABET) }

\* the value of a character of the alphabet
DigitOf(c) == (CHOOSE k \in 1..Len(ALPHABET) : ALPHABET[k] = c) - 1

\* the number of leading zero digits of a digit sequence
RECURSIVE LeadingZeros(_)
LeadingZeros(digits) ==
    IF digits = <<>> \/ Head(digits) # 0 THEN 0 ELSE 1 + LeadingZeros(Tail(digits))

StripZeros(digits) == SubSeq(digits, LeadingZeros(digits) + 1, Len(digits))

\* long division of a big-endian digit sequence in base from by the number to
RECURSIVE LongDiv(_, _, _, _, _)
LongDiv(digits, k, from, to, acc) ==
    IF k > Len(digits)
    THEN acc
    ELSE LET cur == acc.rem * from + digits[k]
         IN  LongDiv(digits, k + 1, from, to,
                     [quot |-> Append(acc.quot, cur \div to), rem |-> cur % to])

\* the big-endian digits in base to of the number written by digits in base from,
\* without leading zeros
RECURSIVE ToBase(_, _, _)
ToBase(digits, from, to) ==
    LET d == StripZeros(digits)
    IN  IF d = <<>>
        THEN <<>>
        ELSE LET r == LongDiv(d, 1, from, to, [quot |-> <<>>, rem |-> 0])
             IN  Append(ToBase(r.quot, from, to), r.rem)

\* bs58.encode(bytes): one "1" per leading zero byte, then the base-58 digits
bs58encode(bytes) ==
    LET digits == ToBase(bytes, 256, Len(ALPHABET))
    IN  [k \in 1..LeadingZeros(bytes) |-> ALPHABET[1]]
            \o [k \in 1..Len(digits) |-> ALPHABET[digits[k] + 1]]

\* new Uint8Array(array): every element modulo 256
Uint8ArrayFrom(array) == [k \in 1..Len(array) |-> array[k] % 256]

\* values passed as a signature
StringValue(chars) == [type |-> "string", chars |-> chars]
Uint8ArrayValue(bytes) == [type |-> "Uint8Array", bytes |-> bytes]
ArrayValue(numbers) == [type |-> "Array", numbers |-> numbers]
Wrapped(inner) == [type |-> "object", signature |-> inner]

\* JavaScript truthiness of signature.signature
Truthy(value) == ~(value.type = "string" /\ value.chars = <<>>)

\* String(signature) for an object that reaches the fallback
StringOfObject == <<"[object Object]">>

\* formatSignature without the unwrapping and the array conversion
formatSignatureBytesOnly(signature) ==
    IF signature.type = "string" THEN signature.chars
    ELSE IF signature.type = "Uint8Array" THEN bs58encode(signature.bytes)
    ELSE StringOfObject

\* formatSignature(signature)
RECURSIVE formatSignature(_)
formatSignature(signature) ==
    IF signature.type = "string" THEN signature.chars
    ELSE IF signature.type = "Uint8Array" THEN bs58encode(signature.bytes)
    ELSE IF signature.type = "object" /\ Truthy(signature.signature)
    THEN formatSignature(signature.signature)
    ELSE IF signature.type = "Array" THEN bs58encode(Uint8ArrayFrom(signature.numbers))
    ELSE StringOfObject

\* byte values at the edges of a base-58 digit and of a byte
ByteValues == {0, 1, 57, 58, 255}

SignatureBytes == UNION { [1..n -> ByteValues] : n \in 0..MaxSignatureBytes }

\* the representations one signature reaches formatSignature in
Representations(bytes) ==
    { Uint8ArrayValue(bytes), ArrayValue(bytes), Wrapped(Uint8ArrayValue(bytes)),
      Wrapped(ArrayValue(bytes)) }

SignatureInputs ==
    UNION { Representations(b) \cup { StringValue(bs58encode(b)),
                                      Wrapped(StringValue(bs58encode(b))) }
            : b \in SignatureBytes }

FormatInit ==
    /\ fn = ""
    /\ arg \in SignatureInputs
    /\ out = <<>>
    /\ BatchIdle
    /\ NftIdle
    /\ UploadIdle

\* this.formatSignature(signature)
Format ==
    /\ fn = ""
    /\ fn' = "formatSignature"
    /\ out' = formatSignature(arg)
    /\ UNCHANGED <<arg, nonPureVars>>

\* the string formatSignature returned is formatted again
FormatAgain ==
    /\ fn = "formatSignature"
    /\ fn' = "formatSignature twice"
    /\ out' = formatSignature(StringValue(out))
    /\ UNCHANGED <<arg, nonPureVars>>

FormatNext ==
    \/ Format
    \/ FormatAgain

SpecFormat == FormatInit /\ [][FormatNext]_vars

\* the signature bytes an input stands for
RECURSIVE BytesOf(_)
BytesOf(signature) ==
    CASE signature.type = "Uint8Array" -> signature.bytes
      [] signature.type = "Array" -> signature.numbers
      [] signature.type = "object" -> BytesOf(signature.signature)

IsBytesRepresentation(signature) ==
    \/ signature.type \in {"Uint8Array", "Array"}
    \/ signature.type = "object" /\ signature.signature.type \in {"Uint8Array", "Array"}

\* C19: a string is returned unchanged, formatting the result again does not change it,
\* and the Uint8Array, numeric-array and wrapped representations of the same bytes all
\* give the same string, the base-58 encoding of the bytes
C19_FormatSignatureIdempotent ==
    fn \in {"formatSignature", "formatSignature twice"} =>
        /\ out = formatSignature(arg)
        /\ (arg.type = "string" => out = arg.chars)
        /\ (IsBytesRepresentation(arg) =>
               /\ out = bs58encode(BytesOf(arg))
               /\ \A r \in Representations(BytesOf(arg)) : formatSignature(r) = out)

C19_Witness ==
    /\ fn = "formatSignature twice"
    /\ arg = Wrapped(ArrayValue(<<0, 255>>))
    /\ out = <<"1", "5", "Q">>

----------------------------------------------------------------------------
(* Recipient resolution: validateAndConvertAddress and its callers *)

MaxPadding == 1

Whitespace == {" ", "\t"}

\* String.prototype.trim
RECURSIVE TrimStart(_)
TrimStart(chars) ==
    IF chars # <<>> /\ Head(chars) \in Whitespace THEN TrimStart(Tail(chars)) ELSE chars

RECURSIVE TrimEnd(_)
TrimEnd(chars) ==
    IF chars # <<>> /\ chars[Len(chars)] \in Whitespace
    THEN TrimEnd(SubSeq(chars, 1, Len(chars) - 1))
    ELSE chars

Trim(chars) == TrimEnd(TrimStart(chars))

IsBase58(chars) == \A k \in 1..Len(chars) : chars[k] \in AlphabetChars

\* bs58.decode(chars) of a string of the alphabet: one zero byte per leading "1", then the
\* bytes of the base-58 number
bs58decode(chars) ==
    LET digits == [k \in 1..Len(chars) |-> DigitOf(chars[k])]
    IN  [k \in 1..LeadingZeros(digits) |-> 0] \o ToBase(digits, Len(ALPHABET), 256)

\* new PublicKey(string) of @solana/web3.js throws: a character outside the alphabet, or
\* a decoded length other than 32 bytes
PublicKeyThrows(chars) == ~IsBase58(chars) \/ Len(bs58decode(chars)) # 32

\* publicKey(string) of umi throws: fewer than 32 or more than 44 characters, a
\* character outside the alphabet, or a decoded length other than 32 bytes
umiPublicKeyThrows(chars) ==
    \/ Len(chars) < 32
    \/ Len(chars) > 44
    \/ ~IsBase58(chars)
    \/ Len(bs58decode(chars)) # 32

NotValid == [isValid |-> FALSE, solanaKey |-> <<>>, umiKey |-> <<>>]

\* validateAndConvertAddress accepting every string of the alphabet
validateAndConvertAddressCharsetOnly(address) ==
    IF ~IsBase58(Trim(address))
    THEN NotValid
    ELSE [isValid |-> TRUE, solanaKey |-> bs58decode(Trim(address)), umiKey |-> Trim(address)]

\* validateAndConvertAddress(address): the solana key is the decoded bytes, the umi key
\* the trimmed string
validateAndConvertAddress(address) ==
    IF PublicKeyThrows(Trim(address)) \/ umiPublicKeyThrows(Trim(address))
    THEN NotValid
    ELSE [isValid |-> TRUE, solanaKey |-> bs58decode(Trim(address)), umiKey |-> Trim(address)]

Repeat(c, n) == [k \in 1..n |-> c]

\* the connected wallet's address: umi.identity.publicKey and wallet.publicKey
WalletUmiKey == Repeat("1", 31) \o <<"3">>
WalletSolanaKey == bs58decode(WalletUmiKey)

\* recipients[i] is undefined (no list, or a hole in it)
Undefined == [type |-> "undefined"]

\* identifiers around the limits: 32 to 44 characters, 32 bytes, the alphabet
Bodies ==
    { Repeat(c, n) \o tail :
        c \in {"1", "z"},
        n \in {0, 3, 30, 31, 32, 33, 42, 43, 44},
        tail \in { <<>>, <<"2">>, <<"0">>, <<"-">> } }
        \cup { <<"n", "o", "t", "-", "a", "n", "-", "a", "d", "d", "r", "e", "s", "s">> }

RecipientInputs ==
    { Undefined }
        \cup { StringValue(Repeat(" ", a) \o body \o Repeat("\t", b)) :
                 a \in 0..MaxPadding, b \in 0..MaxPadding, body \in Bodies }

\* the recipient the mint is created for: lines 480-504 for one item, lines 392-404
resolveRecipient(recipient) ==
    IF recipient.type = "string" /\ recipient.chars # <<>> /\ Trim(recipient.chars) # <<>>
    THEN LET validation == validateAndConvertAddress(recipient.chars)
         IN  IF validation.isValid
             THEN [threw |-> FALSE, fromRecipient |-> TRUE,
                   umiKey |-> validation.umiKey, solanaKey |-> validation.solanaKey]
             ELSE [threw |-> FALSE, fromRecipient |-> FALSE,
                   umiKey |-> WalletUmiKey, solanaKey |-> WalletSolanaKey]
    ELSE [threw |-> FALSE, fromRecipient |-> FALSE,
          umiKey |-> WalletUmiKey, solanaKey |-> WalletSolanaKey]

ResolveInit ==
    /\ fn = ""
    /\ arg \in RecipientInputs
    /\ out = <<>>
    /\ BatchIdle
    /\ NftIdle
    /\ UploadIdle

\* the recipient is resolved before the mint is created
Resolve ==
    /\ fn = ""
    /\ fn' = "resolveRecipient"
    /\ out' = resolveRecipient(arg)
    /\ UNCHANGED <<arg, nonPureVars>>

\* createNft is called with tokenOwner set to the resolved key
CreateNftForRecipient ==
    /\ fn = "resolveRecipient"
    /\ fn' = "createNft"
    /\ UNCHANGED <<arg, out, nonPureVars>>

ResolveNext ==
    \/ Resolve
    \/ CreateNftForRecipient

SpecResolve == ResolveInit /\ [][ResolveNext]_vars

\* the identifier is well formed: 32 to 44 characters of the alphabet that decode to a
\* 32-byte address
WellFormed(recipient) ==
    /\ recipient.type = "string"
    /\ Len(Trim(recipient.chars)) \in 32..44
    /\ IsBase58(Trim(recipient.chars))
    /\ Len(bs58decode(Trim(recipient.chars))) = 32

\* C11: resolution never throws; the identifier is used only when it is well formed, and
\* then in both representations of the same address; an absent, blank or malformed
\* identifier gives the wallet's own address in both representations
C11_ResolutionFallsBackToWallet ==
    fn \in {"resolveRecipient", "createNft"} =>
        /\ ~out.threw
        /\ out.fromRecipient <=> WellFormed(arg)
        /\ out.fromRecipient =>
              /\ out.umiKey = Trim(arg.chars)
              /\ Len(out.solanaKey) = 32
              /\ bs58encode(out.solanaKey) = out.umiKey
        /\ ~out.fromRecipient =>
              /\ out.umiKey = WalletUmiKey
              /\ out.solanaKey = WalletSolanaKey

\* a malformed identifier resolved to the wallet, and the mint went on
C11_Witness ==
    /\ fn = "createNft"
    /\ arg = StringValue(<<"n", "o", "t", "-", "a", "n", "-", "a", "d", "d", "r", "e", "s", "s">>)
    /\ out.umiKey = WalletUmiKey
    /\ out.solanaKey = WalletSolanaKey

----------------------------------------------------------------------------
(* MetaplexNFTService.mintNFT: the single-item minter *)

mintNFTMaxRetries == 3
RetryWaitMs == 2000
MasterEditionSize == 282
MintNFTFeeSignatures == 3

\* MetaplexNFTService.estimateMintingCost(network); rpcOk: the four RPC queries answered
mintNFTEstimate(rpcOk) ==
    IF rpcOk
    THEN getMinimumBalanceForRentExemption(MintAccountSize)
         + getMinimumBalanceForRentExemption(MetadataAccountSize)
         + getMinimumBalanceForRentExemption(MasterEditionSize)
         + getMinimumBalanceForRentExemption(TokenAccountSize)
         + BaseFeeLamports * MintNFTFeeSignatures
    ELSE FallbackPerItem

\* the error of the balance check of mintNFT: it quotes the estimate only
MintNFTInsufficientFundsError(estimate) ==
    createError(ERROR_CODES.INSUFFICIENT_FUNDS,
                <<"Insufficient funds", ". Need at least N">>, <<ToFixed4(estimate)>>)

\* the raw failures of createNft(...).sendAndConfirm
MintNFTSubmissionErrors ==
    SubmissionErrors \cup { RawError(<<"Simulation failed", ": custom program error">>) }

\* the failure of the umi signer when the wallet adapter has no signTransaction
SigningUnsupportedError ==
    RawError(<<"The current wallet adapter does not support the following operation: ",
               "signTransaction">>)

\* the failure of umi.rpc.getLatestBlockhash
LatestBlockhashError == RawError(<<"failed to get latest blockhash">>)

\* the only failure of sendAndConfirm that can leave the transaction on chain
MayHaveLanded(error) ==
    Includes(error.message, "Transaction was not confirmed in 30.00 seconds")

ShouldRetryAnyError(error, count) == count < mintNFTMaxRetries

\* the test of the catch inside the retry loop; count is retryCount after retryCount++
ShouldRetry(error, count) ==
    /\ error.isError
    /\ Includes(error.message, "Blockhash not found")
    /\ count < mintNFTMaxRetries

MintPerAttempt(signers, attempt) == attempt

\* the mint identity of an attempt: const mint, generated once before the loop
MintOfAttempt(signers, attempt) == signers

BalanceCoversAlways(balance, cost) == TRUE

\* the balance check of mintNFT passes: balance < estimatedCost, negated
BalanceCovers(balance, cost) == ~(balance < cost)

MintNFTInit ==
    /\ nftPc = "start"
    /\ nftWallet \in [publicKey : BOOLEAN, signTransaction : BOOLEAN]
    /\ nftBalance = -1
    /\ nftEstimatedCost = -1
    /\ nftSigners = 0
    /\ nftRetryCount = 0
    /\ nftAttempts = <<>>
    /\ nftFailures = <<>>
    /\ nftWaits = <<>>
    /\ nftChainCalls = 0
    /\ nftCreated = {}
    /\ nftThrown = NoError
    /\ nftReturned = FALSE
    /\ BatchIdle
    /\ PureIdle
    /\ UploadIdle

\* the guard before the try block
MintNFTThrowNoWallet ==
    /\ nftPc = "start"
    /\ ~nftWallet.publicKey
    /\ nftPc' = "thrown"
    /\ nftThrown' = createError(ERROR_CODES.WALLET_NOT_CONNECTED, <<"Wallet not connected">>,
                                <<>>)
    /\ UNCHANGED <<nftWallet, nftBalance, nftEstimatedCost, nftSigners, nftRetryCount,
                   nftAttempts, nftFailures, nftWaits, nftChainCalls, nftCreated, nftReturned>>
    /\ UNCHANGED nonNftVars

\* createUmi, then connection.getBalance(wallet.publicKey) is sent
MintNFTQueryBalance ==
    /\ nftPc = "start"
    /\ nftWallet.publicKey
    /\ nftPc' = "balance"
    /\ nftChainCalls' = nftChainCalls + 1
    /\ UNCHANGED <<nftWallet, nftBalance, nftEstimatedCost, nftSigners, nftRetryCount,
                   nftAttempts, nftFailures, nftWaits, nftCreated, nftThrown, nftReturned>>
    /\ UNCHANGED nonNftVars

\* the catch of the outer try block
MintNFTOuterCatch(error) ==
    /\ nftPc' = "thrown"
    /\ nftThrown' = mintNFTCatch(error)

\* getBalance answers; estimateMintingCost is called
MintNFTBalanceRead ==
    /\ nftPc = "balance"
    /\ \E balance \in BalanceValues : nftBalance' = balance
    /\ nftPc' = "estimate"
    /\ nftChainCalls' = nftChainCalls + 1
    /\ UNCHANGED <<nftWallet, nftEstimatedCost, nftSigners, nftRetryCount, nftAttempts,
                   nftFailures, nftWaits, nftCreated, nftThrown, nftReturned>>
    /\ UNCHANGED nonNftVars

\* getBalance rejects
MintNFTBalanceFails ==
    /\ nftPc = "balance"
    /\ MintNFTOuterCatch(BalanceError)
    /\ UNCHANGED <<nftWallet, nftBalance, nftEstimatedCost, nftSigners, nftRetryCount,
                   nftAttempts, nftFailures, nftWaits, nftChainCalls, nftCreated, nftReturned>>
    /\ UNCHANGED nonNftVars

\* the estimate returns and the balance is below it
MintNFTInsufficientFunds ==
    /\ nftPc = "estimate"
    /\ \E rpcOk \in BOOLEAN :
          /\ nftEstimatedCost' = mintNFTEstimate(rpcOk)
          /\ ~BalanceCovers(nftBalance, mintNFTEstimate(rpcOk))
          /\ MintNFTOuterCatch(MintNFTInsufficientFundsError(mintNFTEstimate(rpcOk)))
    /\ UNCHANGED <<nftWallet, nftBalance, nftSigners, nftRetryCount, nftAttempts,
                   nftFailures, nftWaits, nftChainCalls, nftCreated, nftReturned>>
    /\ UNCHANGED nonNftVars

\* the estimate returns, the balance covers it: generateSigner, the retry loop is entered
\* and the first getLatestBlockhash is sent
MintNFTGenerateSigner ==
    /\ nftPc = "estimate"
    /\ \E rpcOk \in BOOLEAN :
          /\ nftEstimatedCost' = mintNFTEstimate(rpcOk)
          /\ BalanceCovers(nftBalance, mintNFTEstimate(rpcOk))
    /\ nftSigners' = nftSigners + 1
    /\ nftRetryCount' = 0
    /\ nftPc' = "blockhash"
    /\ nftChainCalls' = nftChainCalls + 1
    /\ UNCHANGED <<nftWallet, nftBalance, nftAttempts, nftFailures, nftWaits, nftCreated,
                   nftThrown, nftReturned>>
    /\ UNCHANGED nonNftVars

\* the catch inside the loop: retryCount++, then wait and continue, or rethrow
MintNFTLoopCatch(error) ==
    /\ nftRetryCount' = nftRetryCount + 1
    /\ nftFailures' = Append(nftFailures, error)
    /\ IF ShouldRetry(error, nftRetryCount + 1)
       THEN nftPc' = "wait" /\ UNCHANGED nftThrown
       ELSE MintNFTOuterCatch(error)

\* the attempt in progress: the mint it names and the blockhash fetch it used (0: none)
Attempt(fetched) ==
    [mint |-> MintOfAttempt(nftSigners, Len(nftAttempts) + 1),
     blockhash |-> IF fetched THEN nftChainCalls ELSE 0]

\* umi.rpc.getLatestBlockhash rejects
MintNFTBlockhashFails ==
    /\ nftPc = "blockhash"
    /\ nftAttempts' = Append(nftAttempts, Attempt(FALSE))
    /\ MintNFTLoopCatch(LatestBlockhashError)
    /\ UNCHANGED <<nftWallet, nftBalance, nftEstimatedCost, nftSigners, nftWaits,
                   nftChainCalls, nftCreated, nftReturned>>
    /\ UNCHANGED nonNftVars

\* the blockhash arrives, sendAndConfirm asks the wallet to sign: no signTransaction
MintNFTSigningFails ==
    /\ nftPc = "blockhash"
    /\ ~nftWallet.signTransaction
    /\ nftAttempts' = Append(nftAttempts, Attempt(TRUE))
    /\ MintNFTLoopCatch(SigningUnsupportedError)
    /\ UNCHANGED <<nftWallet, nftBalance, nftEstimatedCost, nftSigners, nftWaits,
                   nftChainCalls, nftCreated, nftReturned>>
    /\ UNCHANGED nonNftVars

\* the blockhash arrives, the wallet signs, the transaction is sent
MintNFTSend ==
    /\ nftPc = "blockhash"
    /\ nftWallet.signTransaction
    /\ nftAttempts' = Append(nftAttempts, Attempt(TRUE))
    /\ nftPc' = "sent"
    /\ nftChainCalls' = nftChainCalls + 1
    /\ UNCHANGED <<nftWallet, nftBalance, nftEstimatedCost, nftSigners, nftRetryCount,
                   nftFailures, nftWaits, nftCreated, nftThrown, nftReturned>>
    /\ UNCHANGED nonNftVars

\* sendAndConfirm resolves: break, then the addresses are derived and the result returned
MintNFTConfirmed ==
    /\ nftPc = "sent"
    /\ nftCreated' = nftCreated \cup {nftAttempts[Len(nftAttempts)].mint}
    /\ nftPc' = "returned"
    /\ nftReturned' = TRUE
    /\ UNCHANGED <<nftWallet, nftBalance, nftEstimatedCost, nftSigners, nftRetryCount,
                   nftAttempts, nftFailures, nftWaits, nftChainCalls, nftThrown>>
    /\ UNCHANGED nonNftVars

\* sendAndConfirm rejects
MintNFTSendFails ==
    /\ nftPc = "sent"
    /\ \E error \in MintNFTSubmissionErrors :
          /\ MintNFTLoopCatch(error)
          /\ \E landed \in {FALSE, MayHaveLanded(error)} :
                nftCreated' = IF landed
                              THEN nftCreated \cup {nftAttempts[Len(nftAttempts)].mint}
                              ELSE nftCreated
    /\ UNCHANGED <<nftWallet, nftBalance, nftEstimatedCost, nftSigners, nftAttempts,
                   nftWaits, nftChainCalls, nftReturned>>
    /\ UNCHANGED nonNftVars

\* the 2 s timer fires: continue, the next getLatestBlockhash is sent
MintNFTWaitDone ==
    /\ nftPc = "wait"
    /\ nftWaits' = Append(nftWaits, RetryWaitMs)
    /\ nftPc' = "blockhash"
    /\ nftChainCalls' = nftChainCalls + 1
    /\ UNCHANGED <<nftWallet, nftBalance, nftEstimatedCost, nftSigners, nftRetryCount,
                   nftAttempts, nftFailures, nftCreated, nftThrown, nftReturned>>
    /\ UNCHANGED nonNftVars

MintNFTNext ==
    \/ MintNFTThrowNoWallet
    \/ MintNFTQueryBalance
    \/ MintNFTBalanceRead
    \/ MintNFTBalanceFails
    \/ MintNFTInsufficientFunds
    \/ MintNFTGenerateSigner
    \/ MintNFTBlockhashFails
    \/ MintNFTSigningFails
    \/ MintNFTSend
    \/ MintNFTConfirmed
    \/ MintNFTSendFails
    \/ MintNFTWaitDone

SpecMintNFT == MintNFTInit /\ [][MintNFTNext]_vars

----------------------------------------------------------------------------
(* Properties of MetaplexNFTService.mintNFT *)

IsBlockhashFailure(error) == error.isError /\ Includes(error.message, "Blockhash not found")

\* C12: a wallet without a public key or without signTransaction makes mintNFT fail with
\* WALLET_NOT_CONNECTED before any chain call and any attempt
C12_FailsWithoutSigningCapability ==
    ((~nftWallet.publicKey \/ ~nftWallet.signTransaction) /\ nftPc \notin {"idle", "start"})
        => /\ nftPc = "thrown"
           /\ nftThrown.code = ERROR_CODES.WALLET_NOT_CONNECTED
           /\ nftChainCalls = 0
           /\ nftAttempts = <<>>

\* C13: a balance below the estimate makes mintNFT fail with INSUFFICIENT_FUNDS, the error
\* quoting the shortfall, with no mint identity generated and no attempt made
C13_InsufficientFundsCarriesShortfall ==
    (nftEstimatedCost >= 0 /\ nftBalance < nftEstimatedCost)
        => /\ nftPc = "thrown"
           /\ nftThrown.code = ERROR_CODES.INSUFFICIENT_FUNDS
           /\ \E k \in 1..Len(nftThrown.amounts) :
                 nftThrown.amounts[k] = ToFixed4(nftEstimatedCost - nftBalance)
           /\ nftSigners = 0
           /\ nftAttempts = <<>>

\* C14: at most 3 attempts; an attempt follows a failure only when the failure is a stale
\* blockhash, and then always unless it was the third; a 2000 ms wait precedes every attempt
\* after the first; no two attempts use the same blockhash fetch; the third blockhash
\* failure ends the mint with NETWORK_ERROR
C14_RetryPolicy ==
    /\ Len(nftAttempts) <= 3
    /\ nftRetryCount = Len(nftFailures)
    /\ \A k \in 1..Len(nftFailures) :
          (Len(nftAttempts) > k \/ nftPc = "wait") => IsBlockhashFailure(nftFailures[k])
    /\ (nftPc = "thrown" /\ Len(nftFailures) \in 1..2)
          => ~IsBlockhashFailure(nftFailures[Len(nftFailures)])
    /\ \A k \in 1..Len(nftWaits) : nftWaits[k] = 2000
    /\ nftPc \in {"sent", "returned", "thrown", "wait"}
          => Len(nftWaits) = (IF nftAttempts = <<>> THEN 0 ELSE Len(nftAttempts) - 1)
    /\ \A j, k \in 1..Len(nftAttempts) :
          (j # k /\ nftAttempts[j].blockhash # 0)
              => nftAttempts[j].blockhash # nftAttempts[k].blockhash
    /\ (Len(nftFailures) = 3 /\ IsBlockhashFailure(nftFailures[3]))
          => (nftPc = "thrown" /\ nftThrown.code = ERROR_CODES.NETWORK_ERROR)

\* three stale-blockhash failures in a row ended the mint
C14_Witness ==
    /\ nftPc = "thrown"
    /\ Len(nftFailures) = 3
    /\ \A k \in 1..3 : IsBlockhashFailure(nftFailures[k])
    /\ nftWaits = <<2000, 2000>>
    /\ nftThrown.code = ERROR_CODES.NETWORK_ERROR

\* the failure is one the minter classifies NETWORK_ERROR
IsNetworkFailure(error) == mintNFTCatch(error).code = ERROR_CODES.NETWORK_ERROR

\* C15: when attempts 1 and 2 fail with a NETWORK_ERROR cause and attempt 3 succeeds, the
\* mint returns after exactly 2 retries, the three attempts name the same mint identity and
\* one creation is on chain
C15_SameMintAcrossRetries ==
    (Len(nftAttempts) = 3 /\ Len(nftFailures) = 2
        /\ IsNetworkFailure(nftFailures[1]) /\ IsNetworkFailure(nftFailures[2])
        /\ nftPc \in {"returned", "thrown"})
        => /\ nftPc = "returned"
           /\ nftReturned
           /\ nftRetryCount = 2
           /\ Len(nftWaits) = 2
           /\ nftSigners = 1
           /\ \A k \in 1..3 : nftAttempts[k].mint = nftAttempts[1].mint
           /\ Cardinality(nftCreated) = 1

C15_Witness ==
    /\ nftPc = "returned"
    /\ Len(nftAttempts) = 3
    /\ IsBlockhashFailure(nftFailures[1])
    /\ IsBlockhashFailure(nftFailures[2])
    /\ nftRetryCount = 2
    /\ Cardinality(nftCreated) = 1

----------------------------------------------------------------------------
(* Further properties of mintCollection *)

\* C21: the re-check happens exactly before the even indexes greater than 0; when its
\* balance read answers, whatever the comparison says, the next thing is the first attempt
\* of the same item, with the insufficient-funds flag, the results and the counters as
\* they were, and the only effect is the warning recorded for that item
C21_RecheckOnlyWarns ==
    [][/\ (pc' = "recheck") => (i' > 0 /\ i' % 2 = 0 /\ retryCount' = 0)
       /\ (pc' = "attempt" /\ retryCount' = 0 /\ i' > 0 /\ i' % 2 = 0) => (pc = "recheck")
       /\ (pc = "recheck" /\ pc' # "thrown")
             => /\ pc' = "attempt"
                /\ i' = i
                /\ insufficientFundsDetected' = insufficientFundsDetected
                /\ fundsFailedAt' = fundsFailedAt
                /\ results' = results
                /\ successfulMints' = successfulMints
                /\ warnedAt \subseteq warnedAt'
                /\ warnedAt' \subseteq (warnedAt \cup {i})]_vars

\* a warning was given before item 2, item 2 was submitted all the same and the flag is
\* not set
C21_Witness ==
    /\ 2 \in warnedAt
    /\ submissions[2] >= 1
    /\ ~insufficientFundsDetected
    /\ pc = "returned"
    /\ returned.totalMinted = 3

----------------------------------------------------------------------------
(* Phases of MetaplexNFTService.mintNFT *)

\* the moves between positions that follow the order balance check, identity generation,
\* submission, confirmation with derivation and result; the retry goes back from a failed
\* submission to the next one
PhaseOrder ==
    { <<"start", "balance">>, <<"balance", "estimate">>, <<"estimate", "blockhash">>,
      <<"blockhash", "sent">>, <<"sent", "returned">>, <<"sent", "wait">>,
      <<"wait", "blockhash">> }

\* C22: mintNFT moves only along the phase order or into the error state; a transaction
\* is sent only after the balance check passed and the mint identity was generated; the
\* result is returned only after a confirmed creation; and no step at all (so no chain
\* call) is taken once it has thrown or returned
C22_PhasesInOrder ==
    [][/\ nftPc \notin {"thrown", "returned"}
       /\ \/ nftPc' = nftPc
          \/ <<nftPc, nftPc'>> \in PhaseOrder
          \/ nftPc' = "thrown"
       /\ (nftPc' = "sent")
             => /\ nftBalance >= 0
                /\ nftEstimatedCost >= 0
                /\ nftBalance >= nftEstimatedCost
                /\ nftSigners = 1
       /\ (nftPc' = "returned")
             => /\ nftReturned'
                /\ nftAttempts[Len(nftAttempts)].mint \in nftCreated'
       /\ (nftPc' = "thrown") => (nftChainCalls' = nftChainCalls /\ ~nftReturned')]_vars

\* a mint that went through every phase once
C22_Witness ==
    /\ nftPc = "returned"
    /\ Len(nftAttempts) = 1
    /\ nftFailures = <<>>
    /\ nftBalance >= nftEstimatedCost
    /\ nftCreated = {1}

----------------------------------------------------------------------------
(* Further properties of estimateMintingCost *)

\* C23: the collection estimate is the single-item estimate times the quantity, for every
\* quantity >= 1, on the RPC path and on the fallback path
C23_CollectionIsQuantityTimesSingle ==
    (fn = "estimateMintingCost" /\ arg.mintType = "collection" /\ arg.quantity >= 1)
        => out.value = arg.quantity * estimateMintingCost(out.rpcOk, "single", 1)

C23_Witness ==
    /\ fn = "estimateMintingCost"
    /\ arg.mintType = "collection"
    /\ arg.quantity = 4
    /\ out.rpcOk
    /\ out.value = 4 * estimateMintingCost(TRUE, "single", 1)
    /\ out.value > 4 * BaseFeeLamports

----------------------------------------------------------------------------
(* The returned BatchMintResult *)

\* C24: the totalCost of a returned BatchMintResult is the per-item estimate times the
\* number of items actually minted.
C24_TotalCostIsCostOfMinted ==
    pc = "returned" => returned.totalCost = PerItemEstimate * returned.totalMinted

\* C27: the returned insufficientFunds flag is true exactly when a submission attempt of
\* the run failed with an insufficient-funds error (here: the attempt whose failure is the
\* last recorded error of the run).
C27_FlagIffFundsFailure ==
    pc = "returned" =>
        /\ (lastError # NoError /\ MentionsInsufficientFunds(lastError.message))
              => returned.insufficientFunds
        /\ returned.insufficientFunds
              => (fundsFailedAt # -1 /\ submissions[fundsFailedAt] >= 1)

----------------------------------------------------------------------------
(* Explorer URLs: createExplorerUrl of the service and getTransactionUrl of the config *)

\* CONFIG.NETWORKS[network].blockchain
Blockchain(network) ==
    IF network \in {"eclipse-mainnet", "eclipse-testnet"} THEN "eclipse" ELSE "solana"

isEclipseNetwork(network) == Blockchain(network) = "eclipse"

\* the words of a network name, for network.includes(...)
NetworkWords(network) ==
    CASE network = "solana-mainnet" -> {"solana", "mainnet"}
      [] network = "solana-devnet" -> {"solana", "devnet"}
      [] network = "eclipse-mainnet" -> {"eclipse", "mainnet"}
      [] network = "eclipse-testnet" -> {"eclipse", "testnet"}

\* a URL string `${base}/${urlType}/${target}` plus `?${query}` when query is not empty;
\* target is the signature's characters
Url(base, urlType, target, query) ==
    [base |-> base, urlType |-> urlType, target |-> target, query |-> query]

\* `cluster=${network}`
ClusterQuery(name) == <<"cluster=", name>>

NoQuery == <<>>

\* createExplorerUrl(signature, network) with the default type "tx"
createExplorerUrl(signature, network) ==
    LET formattedSignature == formatSignature(signature)
    IN  IF isEclipseNetwork(network)
        THEN IF "testnet" \in NetworkWords(network)
             THEN Url("https://eclipsescan.xyz", "tx", formattedSignature,
                      ClusterQuery("testnet"))
             ELSE Url("https://eclipsescan.xyz", "tx", formattedSignature, NoQuery)
        ELSE IF network = "mainnet-beta"
             THEN Url("https://explorer.solana.com", "tx", formattedSignature, NoQuery)
             ELSE Url("https://explorer.solana.com", "tx", formattedSignature,
                      ClusterQuery(network))

\* getTransactionUrl(signature, network); signature is a string
getTransactionUrl(signature, network) ==
    IF isEclipseNetwork(network)
    THEN IF network = "eclipse-testnet"
         THEN Url("https://eclipsescan.xyz", "tx", signature, ClusterQuery("testnet"))
         ELSE Url("https://eclipsescan.xyz", "tx", signature, NoQuery)
    ELSE IF network = "solana-devnet"
         THEN Url("https://explorer.solana.com", "tx", signature, ClusterQuery("devnet"))
         ELSE Url("https://explorer.solana.com", "tx", signature, NoQuery)

\* a base58 signature string and one of the four networks
ExplorerInputs ==
    [signature : { StringValue(bs58encode(b)) : b \in SignatureBytes }, network : Networks]

ExplorerInit ==
    /\ fn = ""
    /\ arg \in ExplorerInputs
    /\ out = <<>>
    /\ BatchIdle
    /\ NftIdle
    /\ UploadIdle

\* this.createExplorerUrl(signature, network)
ApplyCreateExplorerUrl ==
    /\ fn = ""
    /\ fn' = "createExplorerUrl"
    /\ out' = createExplorerUrl(arg.signature, arg.network)
    /\ UNCHANGED <<arg, nonPureVars>>

\* getTransactionUrl(signature, network)
ApplyGetTransactionUrl ==
    /\ fn = ""
    /\ fn' = "getTransactionUrl"
    /\ out' = getTransactionUrl(arg.signature.chars, arg.network)
    /\ UNCHANGED <<arg, nonPureVars>>

ExplorerNext ==
    \/ ApplyCreateExplorerUrl
    \/ ApplyGetTransactionUrl

SpecExplorer == ExplorerInit /\ [][ExplorerNext]_vars

\* C29: for the same signature and each of the four networks, createExplorerUrl returns
\* the URL getTransactionUrl returns.
C29_ExplorerUrlsAgree ==
    fn = "createExplorerUrl" => out = getTransactionUrl(arg.signature.chars, arg.network)

----------------------------------------------------------------------------
(* The recipient list of the collection form: from the textarea to mintCollection *)

MaxLines == 3

\* validateSolanaAddress(address) of lib/validation
validateSolanaAddress(address) ==
    LET trimmed == Trim(address)
    IN  /\ address # <<>>
        /\ Len(trimmed) >= 32
        /\ Len(trimmed) <= 44
        /\ IsBase58(trimmed)
        /\ ~PublicKeyThrows(trimmed)

NotEmpty(chars) == chars # <<>>

TrimAll(strings) == [k \in 1..Len(strings) |-> Trim(strings[k])]

\* handleRecipientListChange(value), value.split("\n") given as lines: formData.recipients
handleRecipientListChange(lines) ==
    LET allAddresses == SelectSeq(TrimAll(lines), NotEmpty)
    IN  SelectSeq(allAddresses, validateSolanaAddress)

\* sanitizeMetadata(formData).recipients
sanitizeRecipients(recipients) == SelectSeq(TrimAll(recipients), NotEmpty)

\* recipients[i] of mintCollection; items are counted from 1 here
RecipientAt(recipients, item) ==
    IF item <= Len(recipients) THEN StringValue(recipients[item]) ELSE Undefined

\* validatedRecipients of mintCollection called by handleMint with sanitized.recipients
ValidatedRecipients(recipients, count) ==
    [item \in 1..count |-> resolveRecipient(RecipientAt(recipients, item))]

\* two addresses other than the wallet's, a line that is no address, a blank line
AddressA == Repeat("1", 31) \o <<"2">>
AddressB == Repeat("1", 31) \o <<"z">>

RecipientLines ==
    { AddressA, <<" ">> \o AddressB, <<"n", "o", "t", "-", "a", "n", "-", "a", "d", "d", "r">>,
      <<>>, <<" ">> }

RecipientListInputs ==
    [lines : UNION { [1..n -> RecipientLines] : n \in 0..MaxLines }, images : 1..MaxItems]

RecipientListInit ==
    /\ fn = ""
    /\ arg \in RecipientListInputs
    /\ out = <<>>
    /\ BatchIdle
    /\ NftIdle
    /\ UploadIdle

\* the textarea changes: formData.recipients is set
ApplyHandleRecipientListChange ==
    /\ fn = ""
    /\ fn' = "handleRecipientListChange"
    /\ out' = [recipients |-> handleRecipientListChange(arg.lines)]
    /\ UNCHANGED <<arg, nonPureVars>>

\* handleMint: sanitizeMetadata, then mintCollection validates the recipients
ApplyHandleMint ==
    /\ fn = "handleRecipientListChange"
    /\ fn' = "handleMint"
    /\ out' = [recipients |-> out.recipients,
               validatedRecipients |->
                   ValidatedRecipients(sanitizeRecipients(out.recipients), arg.images)]
    /\ UNCHANGED <<arg, nonPureVars>>

RecipientListNext ==
    \/ ApplyHandleRecipientListChange
    \/ ApplyHandleMint

SpecRecipientList == RecipientListInit /\ [][RecipientListNext]_vars

\* C26: the i-th NFT of a collection minted from the form goes to the address on the i-th
\* line of the recipient list, or to the wallet when that line is absent or invalid.
C26_RecipientByLinePosition ==
    fn = "handleMint" =>
        \A item \in 1..arg.images :
            out.validatedRecipients[item].umiKey
                = resolveRecipient(RecipientAt(arg.lines, item)).umiKey

----------------------------------------------------------------------------
(* mintCollection with a recipients list: mints confirmed on chain *)

\* sendAndConfirm resolved, the mint exists on chain; getAssociatedTokenAddress then throws
\* for a recipient key off the curve and the catch block of the retry loop takes it
DerivationFails ==
    /\ pc = "submitted"
    /\ i \in recipientOffCurve
    /\ onChain' = [onChain EXCEPT ![i] = @ + 1]
    /\ Catch(OffCurveError(<<>>))
    /\ UNCHANGED <<inputVars, estimatedCost, initialBalance, i, results, successfulMints,
                   finalBalance, submissions, warnedAt, thrown, returned>>
    /\ UNCHANGED <<chainTouched, nonBatchVars>>

MaxRecipients == 1

\* as Init, with a recipients list of up to MaxRecipients addresses: any of the validated
\* recipient keys may be off the curve (validateAndConvertAddress accepts every 32-byte key)
RecipientItems == { j \in 0..(MaxRecipients - 1) : j < imageCount }

AirdropInit ==
    /\ pc = "start"
    /\ walletConnected \in BOOLEAN
    /\ imageCount \in 0..MaxItems
    /\ metadataCount \in 0..MaxItems
    /\ recipientOffCurve \in SUBSET RecipientItems
    /\ estimatedCost = 0
    /\ initialBalance = -1
    /\ i = 0
    /\ retryCount = 0
    /\ lastError = NoError
    /\ results = <<>>
    /\ successfulMints = 0
    /\ insufficientFundsDetected = FALSE
    /\ finalBalance = -1
    /\ submissions = [j \in 0..(MaxItems - 1) |-> 0]
    /\ waits = <<>>
    /\ warnedAt = {}
    /\ fundsFailedAt = -1
    /\ thrown = NoError
    /\ returned = NoResult
    /\ chainTouched = FALSE
    /\ onChain = [j \in 0..(MaxItems - 1) |-> 0]
    /\ NftIdle
    /\ PureIdle
    /\ UploadIdle

AirdropNext ==
    \/ Next
    \/ DerivationFails

SpecAirdrop == AirdropInit /\ [][AirdropNext]_vars

\* the mints a run has created on chain
RECURSIVE SumTo(_, _)
SumTo(f, n) == IF n < 0 THEN 0 ELSE f[n] + SumTo(f, n - 1)

OnChainTotal == SumTo(onChain, MaxItems - 1)

\* C25: for every item at most one mint is confirmed on chain, and the mints a returned
\* run has created on chain are as many as its totalMinted.
C25_AtMostOneMintPerItem ==
    /\ \A j \in 0..(MaxItems - 1) : onChain[j] <= 1
    /\ pc = "returned" => OnChainTotal = returned.totalMinted

----------------------------------------------------------------------------
(* IPFSService.uploadFile: the upload with simulated progress *)

MaxTicks == 3

\* Math.min(90, Math.random() * 80 + 10): a percentage from 10 up to, not including, 90
ProgressValues == {10, 50, 89}

UploadInit ==
    /\ upPc = "start"
    /\ upOnProgress \in BOOLEAN
    /\ upTimer = FALSE
    /\ upProgress = <<>>
    /\ upSettledAt = -1
    /\ upThrown = NoError
    /\ BatchIdle
    /\ NftIdle
    /\ PureIdle

\* up to the await: with onProgress, the callback gets 0 and the interval is set
UploadStart ==
    /\ upPc = "start"
    /\ upPc' = "uploading"
    /\ IF upOnProgress
       THEN /\ upProgress' = <<0>>
            /\ upTimer' = TRUE
       ELSE UNCHANGED <<upProgress, upTimer>>
    /\ UNCHANGED <<upOnProgress, upSettledAt, upThrown, nonUploadVars>>

\* the interval fires: the callback gets a random percentage
ProgressTick ==
    /\ upTimer
    /\ Len(upProgress) <= MaxTicks
    /\ \E progress \in ProgressValues : upProgress' = Append(upProgress, progress)
    /\ UNCHANGED <<upPc, upOnProgress, upTimer, upSettledAt, upThrown, nonUploadVars>>

\* await uploadImageToIPFS(formData) answered: clearInterval, the callback gets 100, then
\* the uri is returned or FILE_UPLOAD_FAILED is thrown for a result without success
UploadAnswered ==
    /\ upPc = "uploading"
    /\ upTimer' = FALSE
    /\ upProgress' = IF upOnProgress THEN Append(upProgress, 100) ELSE upProgress
    /\ upSettledAt' = Len(upProgress')
    /\ \E success \in BOOLEAN :
          IF success
          THEN /\ upPc' = "returned"
               /\ UNCHANGED upThrown
          ELSE /\ upPc' = "thrown"
               /\ upThrown' = createError(ERROR_CODES.FILE_UPLOAD_FAILED,
                                          <<"Upload failed">>, <<>>)
    /\ UNCHANGED <<upOnProgress, nonUploadVars>>

\* await uploadImageToIPFS(formData) rejected: the catch block wraps the error and throws;
\* the statements after the await, clearInterval among them, are not reached
UploadRejected ==
    /\ upPc = "uploading"
    /\ upPc' = "thrown"
    /\ upThrown' = createError(ERROR_CODES.FILE_UPLOAD_FAILED,
                               <<"Failed to upload file to IPFS">>, <<>>)
    /\ upSettledAt' = Len(upProgress)
    /\ UNCHANGED <<upOnProgress, upTimer, upProgress, nonUploadVars>>

UploadNext ==
    \/ UploadStart
    \/ ProgressTick
    \/ UploadAnswered
    \/ UploadRejected

SpecUpload == UploadInit /\ [][UploadNext]_vars

\* C30: once uploadFile has settled the progress interval is stopped and no further
\* progress callback is delivered.
C30_NoProgressAfterSettled ==
    upPc \in {"returned", "thrown"} => (~upTimer /\ Len(upProgress) = upSettledAt)

----------------------------------------------------------------------------
(* Termination of mintCollection *)

\* every awaited call settles and every timer fires: a step that can be taken is taken
FairSpec == Spec /\ WF_vars(Next)

\* the sendAndConfirm calls of the run so far
SubmissionsTotal == SumTo(submissions, MaxItems - 1)

\* C28: mintCollection makes at most 4 submission attempts per item, at most 4 * N for a
\* batch of N items, and every run returns or throws.
C28_TerminatesWithinAttempts ==
    /\ [](/\ \A j \in 0..(MaxItems - 1) : submissions[j] <= 4
          /\ SubmissionsTotal <= 4 * totalNFTs)
    /\ <>(pc \in {"returned", "thrown"})

C28_Witness ==
    /\ pc = "returned"
    /\ totalNFTs = MaxItems
    /\ SubmissionsTotal = 4 * totalNFTs
    /\ returned.totalMinted = 0

============================================================================
